---- MODULE Spec2Model ----
(***************************************************************************)
(* A model of the send-to-canvas plugin (src/src/main.ts, with the text    *)
(* locator of BlockReferenceUtils).  Strings are sequences of one-letter   *)
(* strings, so that indexOf, trim, split, replace and the block ID regular *)
(* expression are computed letter by letter as the code computes them.     *)
(* The source note is one string (the file content); the editor shows the  *)
(* same content.  A command runs as a process (one per invocation) that    *)
(* is suspended at the awaits on the canvas file and on the source note.   *)
(***************************************************************************)
EXTENDS Integers, Sequences, FiniteSets, TLC

\* ------------------------------------------------------------------ bounds

\* The number of commands invoked in one behaviour (one process each).
MaxSends == 2

Procs == 1..MaxSends

\* The number of commands invoked in one behaviour that also edits the
\* settings.
MaxSettingsSends == 1

\* ------------------------------------------------------------- JS strings

NL == "\n"

\* The characters \s matches among the ones the model uses.
WhiteSpace == {" ", NL}

\* [a-zA-Z0-9-] among the characters the model uses.
IdChars == {"a", "b", "c", "d", "p", "q", "T", "-", "1", "2"}

\* String.prototype.startsWith, and a match of t at 0-based offset i of s.
MatchAt(s, t, i) ==
    /\ i + Len(t) <= Len(s)
    /\ \A k \in 1..Len(t) : s[i + k] = t[k]

\* String.prototype.indexOf: the least 0-based offset, or -1.
IndexOf(s, t) ==
    LET hits == {i \in 0..Len(s) : MatchAt(s, t, i)}
    IN  IF hits = {} THEN -1 ELSE CHOOSE i \in hits : \A j \in hits : i <= j

Includes(s, t) == IndexOf(s, t) # -1

StartsWith(s, t) == MatchAt(s, t, 0)

\* String.prototype.trimEnd and trim.
RECURSIVE TrimEnd(_)
TrimEnd(s) ==
    IF s # <<>> /\ s[Len(s)] \in WhiteSpace
    THEN TrimEnd(SubSeq(s, 1, Len(s) - 1))
    ELSE s

RECURSIVE TrimStart(_)
TrimStart(s) ==
    IF s # <<>> /\ Head(s) \in WhiteSpace THEN TrimStart(Tail(s)) ELSE s

Trim(s) == TrimEnd(TrimStart(s))

\* s.replace(t, r) with a string pattern: the first occurrence only.
Replace(s, t, r) ==
    LET i == IndexOf(s, t)
    IN  IF i = -1 THEN s
        ELSE SubSeq(s, 1, i) \o r \o SubSeq(s, i + Len(t) + 1, Len(s))

\* s.replace(/\s+/g, " "): every run of white space becomes one space.
RECURSIVE CollapseWs(_)
CollapseWs(s) ==
    IF s = <<>> THEN <<>>
    ELSE IF Head(s) \in WhiteSpace
         THEN <<" ">> \o CollapseWs(TrimStart(s))
         ELSE <<Head(s)>> \o CollapseWs(Tail(s))

\* s.split("\n"): always at least one line.
RECURSIVE Split(_)
Split(s) ==
    LET i == IndexOf(s, <<NL>>)
    IN  IF i = -1 THEN <<s>>
        ELSE <<SubSeq(s, 1, i)>> \o Split(SubSeq(s, i + 2, Len(s)))

\* lines.join("\n").
RECURSIVE Join(_)
Join(lines) ==
    IF Len(lines) = 0 THEN <<>>
    ELSE IF Len(lines) = 1 THEN lines[1]
    ELSE lines[1] \o <<NL>> \o Join(Tail(lines))

\* line.match(/\^([a-zA-Z0-9-]+)$/): the captured ID, or <<>> for no match
\* (the capture is never empty when the expression matches).
ExistingIdMatch(line) ==
    LET starts == {i \in 1..Len(line) :
                      /\ line[i] = "^"
                      /\ i < Len(line)
                      /\ \A k \in (i + 1)..Len(line) : line[k] \in IdChars}
    IN  IF starts = {} THEN <<>>
        ELSE LET i == CHOOSE j \in starts : \A k \in starts : j <= k
             IN  SubSeq(line, i + 1, Len(line))

\* ------------------------------------------------------- BlockReferenceUtils

\* The index (from 1) of the first line that satisfies P, or 0: the
\* "for (let i = 0; i < lines.length; i++) if (...) return" loops.
FirstLine(lines, P(_)) ==
    LET hits == {i \in 1..Len(lines) : P(lines[i])}
    IN  IF hits = {} THEN 0 ELSE CHOOSE i \in hits : \A j \in hits : i <= j

\* "- [ ]"
TaskPrefix == <<"-", " ", "[", " ", "]">>

\* null, as a position.
NoPosition == [line |-> -1, offset |-> -1]

\* charAt(0): the first character as a string, "" for the empty string.
CharAt0(s) == IF s = <<>> THEN <<>> ELSE <<Head(s)>>

\* An exact pass that returns the last line with the text (the code
\* returns the first).
PassExactLast(lines, text) ==
    LET hits == {i \in 1..Len(lines) : Includes(lines[i], text)}
    IN  IF hits = {} THEN 0 ELSE CHOOSE i \in hits : \A j \in hits : j <= i

\* The line (from 1) found by each pass of findTextPosition, 0 for none.
PassExact(lines, text) == FirstLine(lines, LAMBDA l : Includes(l, text))

PassTrimmed(lines, text) == FirstLine(lines, LAMBDA l : Includes(l, Trim(text)))

PassOpenTask(lines, text) ==
    IF StartsWith(Trim(text), TaskPrefix)
    THEN LET taskContent ==
                 Trim(SubSeq(Trim(text), Len(TaskPrefix) + 1, Len(Trim(text))))
         IN  FirstLine(lines, LAMBDA l : /\ StartsWith(Trim(l), TaskPrefix)
                                         /\ Includes(Trim(l), taskContent))
    ELSE 0

PassFirstLine(lines, text) ==
    IF Includes(text, <<NL>>)
    THEN FirstLine(lines, LAMBDA l : Trim(l) = Trim(Split(text)[1]))
    ELSE 0

PassNormalized(lines, text) ==
    FirstLine(lines,
              LAMBDA l : Trim(CollapseWs(l)) = Trim(CollapseWs(Trim(text))))

\* A locator that tries the whitespace-normalized pass before the trimmed
\* pass (the code tries it last).
findTextPositionNormalizedEarly(content, text) ==
    LET lines == Split(content)
        p1 == PassExact(lines, text)
        p2 == PassTrimmed(lines, text)
        p3 == PassOpenTask(lines, text)
        p4 == PassFirstLine(lines, text)
        p5 == PassNormalized(lines, text)
    IN  IF p1 # 0 THEN [line |-> p1 - 1, offset |-> IndexOf(lines[p1], text)]
        ELSE IF p5 # 0 THEN [line |-> p5 - 1, offset |-> 0]
        ELSE IF p2 # 0
        THEN [line |-> p2 - 1, offset |-> IndexOf(lines[p2], Trim(text))]
        ELSE IF p3 # 0
        THEN [line |-> p3 - 1, offset |-> IndexOf(lines[p3], TaskPrefix)]
        ELSE IF p4 # 0
        THEN [line |-> p4 - 1,
              offset |-> IndexOf(lines[p4], CharAt0(Trim(Split(text)[1])))]
        ELSE NoPosition

\* BlockReferenceUtils.findTextPosition(content, text): 0-based line and
\* offset of the first pass that matches, NoPosition for null.
findTextPosition(content, text) ==
    LET lines == Split(content)
        p1 == PassExact(lines, text)
        p2 == PassTrimmed(lines, text)
        p3 == PassOpenTask(lines, text)
        p4 == PassFirstLine(lines, text)
        p5 == PassNormalized(lines, text)
    IN  IF p1 # 0 THEN [line |-> p1 - 1, offset |-> IndexOf(lines[p1], text)]
        ELSE IF p2 # 0
        THEN [line |-> p2 - 1, offset |-> IndexOf(lines[p2], Trim(text))]
        ELSE IF p3 # 0
        THEN [line |-> p3 - 1, offset |-> IndexOf(lines[p3], TaskPrefix)]
        ELSE IF p4 # 0
        THEN [line |-> p4 - 1,
              offset |-> IndexOf(lines[p4], CharAt0(Trim(Split(text)[1])))]
        ELSE IF p5 # 0 THEN [line |-> p5 - 1, offset |-> 0]
        ELSE NoPosition

\* The IDs Math.random().toString(36).substring(2, 8) can yield: one letter
\* stands for each.
BlockIds == {<<"p">>, <<"q">>}

\* The readings of the clock, by the digit each token of a format shows:
\* "H" stands for the tokens of the date and the hour, "m" for the rest.
Clocks == {[H |-> "1", m |-> "1"], [H |-> "1", m |-> "2"]}

\* moment().format(format): a token gives its digits, any other character
\* is copied.
FormatDate(format, now) ==
    [i \in 1..Len(format) |->
        IF format[i] = "H" THEN now.H
        ELSE IF format[i] = "m" THEN now.m
        ELSE format[i]]

\* BlockReferenceUtils.generateBlockId(settings): the IDs it can return.
generateBlockId(st) ==
    IF st.useCustomBlockIdFormat
    THEN {FormatDate(st.blockIdDateFormat, now) : now \in Clocks}
    ELSE BlockIds

\* ------------------------------------------------------------------- state

VARIABLES
    note,       \* the content of the source note (file and editor)
    canvas,     \* the content of the selected canvas file
    settings,   \* this.settings
    op,         \* per command invocation: where it is, and its locals
    anchorLog,  \* history: the requests addBlockIdToSelection has served
    writer,     \* history: the command that wrote the canvas file last, or 0
    located,    \* history: the last call of findTextPosition and its result
    app         \* the session: this.selectedCanvas, the canvas files of the
                \* vault, whether the startup load has run, the last notice

vars == <<note, canvas, settings, op, anchorLog, writer, located, app>>

\* ---------------------------------------------------------------- settings

\* DEFAULT_SETTINGS, with the letter "#" for the text "[l:: #Canvas ]" and
\* "H-m" for the format "YYYY-MM-DDTHH-mm-ss".
DEFAULT_SETTINGS ==
    [rememberLastCanvas |-> TRUE,
     lastCanvasPath |-> <<>>,
     useCustomBlockIdFormat |-> FALSE,
     blockIdDateFormat |-> <<"H", "-", "m">>,
     appendTimestampToLinks |-> FALSE,
     appendTextToOpenTasks |-> FALSE,
     openTaskAppendText |-> <<"#">>,
     linkNodeWidth |-> 400, linkNodeHeight |-> 100,
     contentNodeWidth |-> 400, contentNodeHeight |-> 200,
     fileNodeWidth |-> 400, fileNodeHeight |-> 400]

\* Main.appendTextToOpenTask(text, modifySourceOnly).
appendTextToOpenTask(st, text, modifySourceOnly) ==
    IF \/ text = <<>>
       \/ ~StartsWith(Trim(text), TaskPrefix)
       \/ ~st.appendTextToOpenTasks
    THEN text
    ELSE IF modifySourceOnly /\ ~Includes(text, st.openTaskAppendText)
         THEN TrimEnd(text) \o <<" ">> \o st.openTaskAppendText
         ELSE text

\* ------------------------------------------------- addBlockIdToSelection

\* lines with lines[i] (i from 0) replaced.
SetLine(lines, i, l) == [lines EXCEPT ![i + 1] = l]

\* The position addBlockIdToSelection works on: the locator's, else the
\* cursor line when the content is that line, else the first line equal to
\* the content after trimming both; NoPosition when all fail.
AnchorPosition(content, cur, text) ==
    LET lines == Split(content)
        found == findTextPosition(content, text)
        eq    == FirstLine(lines, LAMBDA l : Trim(l) = Trim(text))
    IN  IF found # NoPosition THEN found
        ELSE IF text = lines[cur + 1] THEN [line |-> cur, offset |-> 0]
        ELSE IF eq # 0
        THEN [line |-> eq - 1,
              offset |-> IndexOf(lines[eq], CharAt0(Trim(text)))]
        ELSE NoPosition

\* A fallback that writes the new ID to the cursor line whatever the line
\* holds (the code leaves a blank line alone and returns "").
AnchorFallbackAlways(st, content, cur, newId) ==
    LET lines == Split(content)
        currentContent == lines[cur + 1]
    IN  [id |-> newId,
         note |-> Join(SetLine(lines, cur,
                     appendTextToOpenTask(st, currentContent, TRUE)
                         \o <<" ", "^">> \o newId))]

\* The not-found fallback: the new ID goes to the cursor line when that
\* line is not blank.
AnchorFallback(st, content, cur, newId) ==
    LET lines == Split(content)
        currentContent == lines[cur + 1]
    IN  IF Trim(currentContent) # <<>>
        THEN [id |-> newId,
              note |-> Join(SetLine(lines, cur,
                          appendTextToOpenTask(st, currentContent, TRUE)
                              \o <<" ", "^">> \o newId))]
        ELSE [id |-> <<>>, note |-> content]

\* The located line: its existing ID, else the new ID appended to it.
AnchorLine(st, content, pos, newId) ==
    LET lines == Split(content)
        line  == lines[pos.line + 1]
    IN  IF ExistingIdMatch(line) # <<>>
        THEN [id |-> ExistingIdMatch(line), note |-> content]
        ELSE [id |-> newId,
              note |-> Join(SetLine(lines, pos.line,
                          appendTextToOpenTask(st, line, TRUE)
                              \o <<" ", "^">> \o newId))]

\* Main.addBlockIdToSelection(editor, file, content): the block ID returned
\* and the note as written.  newId is what generateBlockId returns; ioOk
\* is whether vault.read and vault.modify succeed (the catch returns "").
addBlockIdToSelection(st, content, cur, text, newId, ioOk) ==
    LET pos == AnchorPosition(content, cur, text)
    IN  IF ~ioOk THEN [id |-> <<>>, note |-> content]
        ELSE IF pos = NoPosition THEN AnchorFallback(st, content, cur, newId)
        ELSE AnchorLine(st, content, pos, newId)

\* sendSelectionToCanvas, after the anchor: the first line of the file that
\* includes "^<id>", without its " ^<id>"; the text itself when no ID came
\* back or no line includes it.
ContentToSend(content, text, blockId) ==
    LET lines == Split(content)
        i == FirstLine(lines, LAMBDA l : Includes(l, <<"^">> \o blockId))
    IN  IF blockId = <<>> \/ i = 0 THEN text
        ELSE Replace(lines[i], <<" ", "^">> \o blockId, <<>>)

\* ------------------------------------------------------------ canvas file

\* The content of a canvas file is either a text that is not JSON, or the
\* text of a JSON value.  A JSON object carries its "nodes" and "edges"
\* members, each absent, falsy (null, 0, "", false), a truthy value that is
\* no array ("scalar"), or an array.
FileText(s) == [k |-> "text", s |-> s]

FileJson(v) == [k |-> "json", v |-> v]

Absent == [f |-> "absent"]

Falsy == [f |-> "falsy"]

Scalar == [f |-> "scalar"]

Arr(items) == [f |-> "arr", items |-> items]

JsonNull == [t |-> "null"]

JsonNum(digits) == [t |-> "num", digits |-> digits]

JsonArr == [t |-> "arr"]

JsonObj(nodes, edges) == [t |-> "obj", nodes |-> nodes, edges |-> edges]

\* canvasContent.trim().length
TrimmedLength(content) ==
    IF content.k = "text" THEN Len(Trim(content.s))
    ELSE IF content.v.t = "num" THEN content.v.digits
    ELSE IF content.v.t = "null" THEN 4
    ELSE 2

\* !canvasContent || canvasContent.trim().length < 2
TooShort(content) ==
    \/ content.k = "text" /\ content.s = <<>>
    \/ TrimmedLength(content) < 2

\* JSON.stringify({ nodes: [], edges: [] })
EmptyCanvas == FileJson(JsonObj(Arr(<<>>), Arr(<<>>)))

\* canvasData in memory: what it is based on (an object, an array, a
\* number) and its nodes and edges properties (undefined, a truthy value
\* that is no array, or an array).
Undefined == [f |-> "undefined"]

Data(base, nodes, edges) == [base |-> base, nodes |-> nodes, edges |-> edges]

EmptyData == Data("obj", Arr(<<>>), Arr(<<>>))

\* A default that replaces whatever the file holds (the code does not).
OrEmptyAlways(member) == Arr(<<>>)

\* if (!canvasData.nodes) canvasData.nodes = [];
OrEmpty(member) == IF member.f \in {"absent", "falsy"} THEN Arr(<<>>) ELSE member

\* A parse whose catch leaves the document without nodes and edges (the
\* catch of the code assigns { nodes: [], edges: [] }).
ParseCanvasNoRecover(content, strict) ==
    IF content.k = "text" \/ content.v.t \in {"null", "num"}
    THEN [threw |-> TRUE, data |-> Data("obj", Undefined, Undefined)]
    ELSE IF content.v.t = "arr"
    THEN [threw |-> FALSE, data |-> Data("arr", Arr(<<>>), Arr(<<>>))]
    ELSE [threw |-> FALSE,
          data |-> Data("obj", OrEmpty(content.v.nodes), OrEmpty(content.v.edges))]

\* The try block around JSON.parse and the two defaults: the data, and
\* whether the catch ran.  JSON.parse throws on a text that is not JSON;
\* reading a property of null throws; assigning a property to a number
\* throws in strict mode and does nothing otherwise.
ParseCanvas(content, strict) ==
    IF content.k = "text" \/ content.v.t = "null"
    THEN [threw |-> TRUE, data |-> EmptyData]
    ELSE IF content.v.t = "num"
    THEN IF strict THEN [threw |-> TRUE, data |-> EmptyData]
         ELSE [threw |-> FALSE, data |-> Data("num", Undefined, Undefined)]
    ELSE IF content.v.t = "arr"
    THEN [threw |-> FALSE, data |-> Data("arr", Arr(<<>>), Arr(<<>>))]
    ELSE [threw |-> FALSE,
          data |-> Data("obj", OrEmpty(content.v.nodes), OrEmpty(content.v.edges))]

\* JSON.stringify(canvasData, null, 2): an array is written with its
\* elements only, so properties set on it are not written.
Stringify(data) ==
    IF data.base = "arr" THEN FileJson(JsonArr)
    ELSE FileJson(JsonObj(data.nodes, data.edges))

\* ------------------------------------------------------------------- nodes

\* A node: enc tells where its coordinates are, "flat" for x and y members,
\* "nested" for a position member, "none" for neither.
Node(id, type, enc, x, y, width, height, body) ==
    [id |-> id, type |-> type, enc |-> enc, x |-> x, y |-> y,
     width |-> width, height |-> height, body |-> body]

\* node.position && typeof node.position.x === "number" && ...
HasPosition(node) == node.enc = "nested"

\* validNodes = nodes.filter(...)
RECURSIVE ValidNodes(_)
ValidNodes(nodes) ==
    IF nodes = <<>> THEN <<>>
    ELSE IF HasPosition(Head(nodes))
         THEN <<Head(nodes)>> \o ValidNodes(Tail(nodes))
         ELSE ValidNodes(Tail(nodes))

\* A loop that keeps the last of the nodes with the largest x (the code
\* keeps the first: it replaces the node on a greater x only).
RightmostLast(valid) ==
    LET i == CHOOSE i \in 1..Len(valid) :
                 /\ \A j \in 1..Len(valid) : valid[j].x <= valid[i].x
                 /\ \A j \in (i + 1)..Len(valid) : valid[j].x < valid[i].x
    IN  valid[i]

\* The loop for the rightmost node: the first of the nodes with the
\* largest x.
Rightmost(valid) ==
    LET i == CHOOSE i \in 1..Len(valid) :
                 /\ \A j \in 1..Len(valid) : valid[j].x <= valid[i].x
                 /\ \A j \in 1..(i - 1) : valid[j].x < valid[i].x
    IN  valid[i]

\* Main.calculateNewNodePosition(nodes), for undefined or an array.
calculateNewNodePosition(nodes) ==
    IF nodes.f = "undefined" \/ nodes.items = <<>> THEN [x |-> 0, y |-> 0]
    ELSE IF ValidNodes(nodes.items) = <<>> THEN [x |-> 0, y |-> 0]
    ELSE [x |-> Rightmost(ValidNodes(nodes.items)).x + 500,
          y |-> Rightmost(ValidNodes(nodes.items)).y]

\* The IDs generateNodeId can return.
NodeIds == {"n1", "n2"}

\* sourceFile.basename and sourceFile.path
Basename == <<"N">>

Path == <<"N", ".", "m", "d">>

\* moment().format(appendTimestampFormat)
Timestamp == <<"t">>

\* The commands.
SelectionFormats == {"plain", "link", "embed"}

NoteCommands == {"noteLink", "noteEmbed"}

\* A block link with a display text after a bar (the code writes none).
NodeTextWithDisplay(st, cmd, content, blockId) ==
    LET stamp == IF st.appendTimestampToLinks THEN <<" ">> \o Timestamp ELSE <<>>
    IN  IF cmd = "link"
        THEN <<"[", "[">> \o Basename \o <<"#", "^">> \o blockId \o <<"|">>
                 \o content \o <<"]", "]">> \o stamp
        ELSE IF cmd = "embed"
        THEN <<"!", "[", "[">> \o Basename \o <<"#", "^">> \o blockId
                 \o <<"]", "]">> \o stamp
        ELSE IF cmd = "noteLink"
        THEN <<"[", "[">> \o Basename \o <<"]", "]">> \o stamp
        ELSE content

\* A timestamp after plain text as well (the code gives it to links only).
NodeTextStampAll(st, cmd, content, blockId) ==
    LET stamp == IF st.appendTimestampToLinks THEN <<" ">> \o Timestamp ELSE <<>>
    IN  IF cmd = "link"
        THEN <<"[", "[">> \o Basename \o <<"#", "^">> \o blockId \o <<"]", "]">> \o stamp
        ELSE IF cmd = "embed"
        THEN <<"!", "[", "[">> \o Basename \o <<"#", "^">> \o blockId
                 \o <<"]", "]">> \o stamp
        ELSE IF cmd = "noteLink"
        THEN <<"[", "[">> \o Basename \o <<"]", "]">> \o stamp
        ELSE content \o stamp

\* The text of the node of a selection command or of the note link.
NodeText(st, cmd, content, blockId) ==
    LET stamp == IF st.appendTimestampToLinks THEN <<" ">> \o Timestamp ELSE <<>>
    IN  IF cmd = "link"
        THEN <<"[", "[">> \o Basename \o <<"#", "^">> \o blockId \o <<"]", "]">> \o stamp
        ELSE IF cmd = "embed"
        THEN <<"!", "[", "[">> \o Basename \o <<"#", "^">> \o blockId
                 \o <<"]", "]">> \o stamp
        ELSE IF cmd = "noteLink"
        THEN <<"[", "[">> \o Basename \o <<"]", "]">> \o stamp
        ELSE content

\* A note link with the size of a content node (the code gives it the size
\* of a link node).
NewNodeContentSized(st, cmd, id, pos, content, blockId) ==
    IF cmd = "noteEmbed"
    THEN Node(id, "file", "flat", pos.x, pos.y,
              st.fileNodeWidth, st.fileNodeHeight, Path)
    ELSE IF cmd = "link"
    THEN Node(id, "text", "flat", pos.x, pos.y,
              st.linkNodeWidth, st.linkNodeHeight,
              NodeText(st, cmd, content, blockId))
    ELSE Node(id, "text", "flat", pos.x, pos.y,
              st.contentNodeWidth, st.contentNodeHeight,
              NodeText(st, cmd, content, blockId))

\* The new node of addToCanvas, addNoteToCanvas and addNoteAsLinkToCanvas.
NewNode(st, cmd, id, pos, content, blockId) ==
    IF cmd = "noteEmbed"
    THEN Node(id, "file", "flat", pos.x, pos.y,
              st.fileNodeWidth, st.fileNodeHeight, Path)
    ELSE IF cmd \in {"link", "noteLink"}
    THEN Node(id, "text", "flat", pos.x, pos.y,
              st.linkNodeWidth, st.linkNodeHeight,
              NodeText(st, cmd, content, blockId))
    ELSE Node(id, "text", "flat", pos.x, pos.y,
              st.contentNodeWidth, st.contentNodeHeight,
              NodeText(st, cmd, content, blockId))

\* An insertion before the nodes read (the code appends).
PushFront(data, node) == [data EXCEPT !.nodes = Arr(<<node>> \o data.nodes.items)]

\* canvasData.nodes.push(newNode)
Push(data, node) == [data EXCEPT !.nodes = Arr(data.nodes.items \o <<node>>)]

\* addToCanvas, the embed of an open task: the first line of the note that
\* includes "^<id>" gets the open-task text before its ID when it has none.
OpenTaskUpdate(st, content, blockId) ==
    LET lines == Split(content)
        i == FirstLine(lines, LAMBDA l : Includes(l, <<"^">> \o blockId))
        lineWithoutBlockId ==
            Replace(lines[i], <<" ", "^">> \o blockId, <<>>)
    IN  IF i = 0 \/ Includes(lineWithoutBlockId, st.openTaskAppendText)
        THEN content
        ELSE Join(SetLine(lines, i - 1,
                          TrimEnd(lineWithoutBlockId) \o <<" ">>
                              \o st.openTaskAppendText
                              \o <<" ", "^">> \o blockId))

\* content.trim().startsWith("- [ ]") && this.settings.appendTextToOpenTasks
NeedsOpenTaskUpdate(st, cmd, content) ==
    /\ cmd = "embed"
    /\ StartsWith(Trim(content), TaskPrefix)
    /\ st.appendTextToOpenTasks

\* ------------------------------------------------------------------ editor

\* The offset in the content of character ch of line l (both from 0).
RECURSIVE OffsetOf(_, _, _)
OffsetOf(lines, l, ch) ==
    IF l = 0 THEN ch ELSE Len(Head(lines)) + 1 + OffsetOf(Tail(lines), l - 1, ch)

\* An editor position that exists in the content.
ValidPos(lines, l, ch) == l < Len(lines) /\ ch <= Len(lines[l + 1])

\* editor.getSelection() for a selection from its anchor to its head.
GetSelection(content, sel) ==
    SubSeq(content,
           OffsetOf(Split(content), sel.fromLine, sel.fromCh) + 1,
           OffsetOf(Split(content), sel.toLine, sel.toCh))

\* The selections the user makes: anchor and head (the cursor), line and
\* character from 0.  Anchor = head is no selection.
Sel(fl, fc, tl, tc) == [fromLine |-> fl, fromCh |-> fc, toLine |-> tl, toCh |-> tc]

Selections ==
    {Sel(0, 0, 0, 0), Sel(1, 0, 2, 1), Sel(0, 1, 1, 1), Sel(0, 1, 2, 0),
     Sel(2, 0, 2, 0)}

ValidSelection(content, sel) ==
    /\ ValidPos(Split(content), sel.fromLine, sel.fromCh)
    /\ ValidPos(Split(content), sel.toLine, sel.toCh)

\* A command that sends the selection as it is (the code takes the line of
\* the cursor for an empty or blank selection).
TextToSendSelectionOnly(content, sel) == GetSelection(content, sel)

\* sendSelectionToCanvas, textToSend: editor.getSelection(), or
\* editor.getLine(originalCursor.line) when the selection is empty or blank.
TextToSend(content, sel) ==
    LET selection == GetSelection(content, sel)
        line == Split(content)[sel.toLine + 1]
    IN  IF selection = <<>> \/ Trim(selection) = <<>> THEN line ELSE selection

\* --------------------------------------------------------------- processes

NoFile == [k |-> "none"]

NoSel == [fromLine |-> -1, fromCh |-> -1, toLine |-> -1, toCh |-> -1]

NoData == [base |-> "none"]

NoNode == [id |-> "none"]

\* A command that has not been invoked.
IdleOp ==
    [pc |-> "idle", cmd |-> "none", sel |-> NoSel, before |-> <<>>,
     text |-> <<>>, blockId |-> <<>>, content |-> <<>>,
     rd |-> NoFile, data |-> NoData, node |-> NoNode, saved |-> "no",
     stale |-> FALSE, notices |-> {}]

\* The notes a behaviour starts from.
TaskNote == <<"-", " ", "[", " ", "]", " ", "a">>

Notes ==
    {<<"a", "b", NL, "a", "b", NL, "c">>,
     <<"a", "b", NL, "c", "d", NL>>,
     TaskNote}

\* The canvas files a behaviour starts from.
OldNode == Node("e1", "text", "nested", 100, 50, 400, 200, <<"x">>)

FlatNode == Node("e2", "text", "flat", 100, 50, 400, 200, <<"y">>)

Canvases ==
    {FileText(<<>>), FileText(<<" ">>), FileText(<<"{">>), FileText(<<"{", "x">>),
     FileJson(JsonNull), FileJson(JsonNum(1)), FileJson(JsonNum(2)),
     FileJson(JsonArr),
     FileJson(JsonObj(Absent, Absent)), FileJson(JsonObj(Falsy, Arr(<<>>))),
     FileJson(JsonObj(Scalar, Arr(<<>>))), FileJson(JsonObj(Arr(<<>>), Scalar)),
     EmptyCanvas,
     FileJson(JsonObj(Arr(<<OldNode>>), Arr(<<"edge1">>))),
     FileJson(JsonObj(Arr(<<FlatNode>>), Arr(<<>>)))}

\* No call of findTextPosition yet.
NoCall == [text |-> <<>>, pos |-> NoPosition, called |-> FALSE]

\* The canvas files the vault can hold, by basename: each is <basename>.canvas
\* in the root folder, so that its path is its name.
CanvasNames == {<<"a">>, <<"a", "b">>}

\* this.selectedCanvas === null, and lastCanvasPath === "".
NoCanvas == <<>>

\* The session of a command: the startup load has run and a canvas file is
\* selected.
ReadyApp ==
    [phase |-> "ready", selectedCanvas |-> <<"a">>, files |-> {<<"a">>},
     notice |-> "none"]

\* The settings loaded from data.json.
LoadedSettings(stamp, task) ==
    [DEFAULT_SETTINGS EXCEPT !.appendTimestampToLinks = stamp,
                             !.appendTextToOpenTasks = task,
                             !.lastCanvasPath = ReadyApp.selectedCanvas]

InitOps ==
    /\ op = [p \in Procs |-> IdleOp]
    /\ anchorLog = <<>>
    /\ writer = 0
    /\ located = NoCall
    /\ app = ReadyApp

\* Any canvas file, under a one-line note (an open task) with the
\* open-task text switched on.
Init ==
    /\ note = TaskNote
    /\ canvas \in Canvases
    /\ settings = LoadedSettings(FALSE, TRUE)
    /\ InitOps

\* Any note, over a canvas file that was just created (empty).
InitNote ==
    /\ note \in Notes
    /\ canvas = FileText(<<>>)
    /\ \E task \in BOOLEAN : settings = LoadedSettings(FALSE, task)
    /\ InitOps

\* The caller's catch: the command ends with its error notice.
Thrown(o) == [o EXCEPT !.pc = "done", !.notices = @ \cup {"error"}]

\* The caller after addToCanvas (or its note variants) has returned: the
\* success notice.
Returned(o) == [o EXCEPT !.pc = "done", !.notices = @ \cup {"sent"}]

\* canvasData.nodes.push(newNode), then on to the save; a TypeError when
\* nodes is undefined.
PushNode(o) ==
    IF o.data.nodes.f = "undefined" THEN Thrown(o)
    ELSE [o EXCEPT !.pc = "save", !.data = Push(o.data, o.node)]

\* addToCanvas from JSON.parse to the next await, on the content in
\* canvasContent: parse, default, position, build the node.
Parsed(st, o, content, strict, nid) ==
    LET parsed == ParseCanvas(content, strict)
        o1 == [o EXCEPT !.data = parsed.data,
                        !.notices = IF parsed.threw
                                    THEN @ \cup {"parseError"} ELSE @]
        o2 == [o1 EXCEPT !.node =
                  NewNode(st, o.cmd, nid, calculateNewNodePosition(parsed.data.nodes),
                          o.content, o.blockId)]
    IN  IF parsed.data.nodes.f = "scalar" THEN Thrown(o1)
        ELSE IF NeedsOpenTaskUpdate(st, o.cmd, o.content)
        THEN [o2 EXCEPT !.pc = "task"]
        ELSE PushNode(o2)

\* The builds differ in whether the module runs in strict mode; it matters
\* for a canvas file that holds a number only.
StrictModes(content) ==
    IF content.k = "json" /\ content.v.t = "num" THEN BOOLEAN ELSE {TRUE}

\* A command that goes on without a selected canvas (the code returns).
CanvasSelectedAlways(application) == TRUE

\* The negation of "if (!this.selectedCanvas)", the first test of the three
\* commands.
CanvasSelected(application) == application.selectedCanvas # NoCanvas

\* An anchor for every format (the code anchors links and embeds).
NeedsAnchorAlways(cmd) == TRUE

\* if (format === "link" || format === "embed")
NeedsAnchor(cmd) == cmd \in {"link", "embed"}

\* sendSelectionToCanvas up to the canvas read of addToCanvas, and
\* sendCurrentNoteToCanvas and sendNoteAsLinkToCanvas up to theirs.  The
\* reads and writes of the source note succeed.  Without a selected canvas
\* the command ends with the notice "Please select a canvas file first" and
\* opens the modal of selectCanvasFile, whose callback is SelectCanvas.
Start(p) ==
    /\ op[p].pc = "idle"
    /\ \A q \in 1..(p - 1) : op[q].pc # "idle"
    /\ \E cmd \in SelectionFormats \cup NoteCommands :
        IF ~CanvasSelected(app)
        THEN /\ op' = [op EXCEPT ![p] =
                          [@ EXCEPT !.pc = "done", !.cmd = cmd, !.before = note,
                                    !.notices = {"selectFirst"}]]
             /\ UNCHANGED <<note, anchorLog>>
        ELSE IF cmd \in NoteCommands
        THEN /\ op' = [op EXCEPT ![p] =
                          [@ EXCEPT !.pc = "read", !.cmd = cmd, !.before = note]]
             /\ UNCHANGED <<note, anchorLog>>
        ELSE \E sel \in {s \in Selections : ValidSelection(note, s)} :
            LET cur == sel.toLine
                textToSend == TextToSend(note, sel)
                o == [op[p] EXCEPT !.cmd = cmd, !.sel = sel, !.before = note,
                                   !.text = textToSend]
            IN  IF Trim(textToSend) = <<>>
                THEN /\ op' = [op EXCEPT ![p] =
                                  [o EXCEPT !.pc = "done", !.notices = {"emptyLine"}]]
                     /\ UNCHANGED <<note, anchorLog>>
                ELSE IF ~NeedsAnchor(cmd)
                THEN /\ op' = [op EXCEPT ![p] =
                                  [o EXCEPT !.pc = "read", !.content = textToSend]]
                     /\ UNCHANGED <<note, anchorLog>>
                ELSE \E newId \in generateBlockId(settings) :
                    LET r == addBlockIdToSelection(settings, note, cur, textToSend,
                                                   newId, TRUE)
                    IN  /\ note' = r.note
                        /\ op' = [op EXCEPT ![p] =
                              [o EXCEPT !.pc = "read", !.blockId = r.id,
                                        !.content = ContentToSend(r.note, textToSend, r.id)]]
                        /\ anchorLog' = Append(anchorLog,
                              [text |-> textToSend, id |-> r.id,
                               located |-> findTextPosition(note, textToSend) # NoPosition,
                               changed |-> r.note # note])
    /\ UNCHANGED <<canvas, settings, writer, located, app>>

\* vault.read(this.selectedCanvas) resumes: the content, or the failure
\* notice and the return to the caller.
CanvasRead(p) ==
    /\ op[p].pc = "read"
    /\ \E ok \in BOOLEAN :
        IF ~ok
        THEN op' = [op EXCEPT ![p] =
                       Returned([@ EXCEPT !.notices = @ \cup {"readFailed"}])]
        ELSE IF TooShort(canvas)
        THEN op' = [op EXCEPT ![p] = [@ EXCEPT !.pc = "init", !.rd = canvas]]
        ELSE \E strict \in StrictModes(canvas), nid \in NodeIds :
                op' = [op EXCEPT ![p] =
                          Parsed(settings, [@ EXCEPT !.rd = canvas], canvas, strict, nid)]
    /\ UNCHANGED <<note, canvas, settings, anchorLog, writer, located, app>>

\* What a write of the canvas file by command p does to the others
\* (history): a command that has read the file and not yet written it now
\* holds content that is no longer the file's.
Outdated(ops, p, changed) ==
    [q \in Procs |->
        IF q # p /\ changed /\ ops[q].pc \in {"init", "task", "save"}
        THEN [ops[q] EXCEPT !.stale = TRUE] ELSE ops[q]]

\* The write of the empty structure over a file that is too short, inside
\* the try of the read.
CanvasInit(p) ==
    /\ op[p].pc = "init"
    /\ \E ok \in BOOLEAN :
        IF ~ok
        THEN /\ op' = [op EXCEPT ![p] =
                          Returned([@ EXCEPT !.notices = @ \cup {"readFailed"}])]
             /\ UNCHANGED <<canvas, writer>>
        ELSE /\ canvas' = EmptyCanvas
             /\ writer' = p
             /\ \E nid \in NodeIds :
                    op' = Outdated([op EXCEPT ![p] =
                                       Parsed(settings, @, EmptyCanvas, TRUE, nid)],
                                   p, canvas' # canvas)
    /\ UNCHANGED <<note, settings, anchorLog, located, app>>

\* addToCanvas, embed of an open task: the read and the write of the source
\* note, then the push.
OpenTask(p) ==
    /\ op[p].pc = "task"
    /\ note' = OpenTaskUpdate(settings, note, op[p].blockId)
    /\ op' = [op EXCEPT ![p] = PushNode(@)]
    /\ UNCHANGED <<canvas, settings, anchorLog, writer, located, app>>

\* A save with a version check, which keeps a file changed since the read
\* (the code has no such check).
SavedContentChecked(current, rd, data) ==
    IF current # rd /\ current # EmptyCanvas THEN current ELSE Stringify(data)

\* The content the save writes: vault.modify(file, JSON.stringify(
\* canvasData, null, 2)) takes nothing from the file as it is now (current),
\* nor does the vault.process callback, (data) => JSON.stringify(...).
SavedContent(current, rd, data) == Stringify(data)

\* vault.modify(this.selectedCanvas, JSON.stringify(canvasData, null, 2))
\* resumes, and the command ends.
CanvasSave(p) ==
    /\ op[p].pc = "save"
    /\ \E ok \in BOOLEAN :
        IF ok
        THEN /\ canvas' = SavedContent(canvas, op[p].rd, op[p].data)
             /\ writer' = p
             /\ op' = Outdated([op EXCEPT ![p] = Returned([@ EXCEPT !.saved = "ok"])],
                               p, canvas' # canvas)
        ELSE /\ UNCHANGED <<canvas, writer>>
             /\ op' = [op EXCEPT ![p] =
                          Returned([@ EXCEPT !.saved = "failed",
                                             !.notices = @ \cup {"saveFailed"}])]
    /\ UNCHANGED <<note, settings, anchorLog, located, app>>

Next ==
    \E p \in Procs :
        \/ Start(p)
        \/ CanvasRead(p)
        \/ CanvasInit(p)
        \/ OpenTask(p)
        \/ CanvasSave(p)

Spec == Init /\ [][Next]_vars

SpecNote == InitNote /\ [][Next]_vars

\* ------------------------------------------------------------ settings tab

\* The value of a decimal digit.
DigitValue ==
    [c \in {"0", "1", "2", "3", "4", "5", "6", "7", "8", "9"} |->
        CASE c = "0" -> 0 [] c = "1" -> 1 [] c = "2" -> 2 [] c = "3" -> 3
          [] c = "4" -> 4 [] c = "5" -> 5 [] c = "6" -> 6 [] c = "7" -> 7
          [] c = "8" -> 8 [] c = "9" -> 9]

\* The value of the longest prefix of s made of digits, after the digits in
\* acc; none is whether no digit has been read.
RECURSIVE ReadDigits(_, _, _)
ReadDigits(s, acc, none) ==
    IF s # <<>> /\ Head(s) \in DOMAIN DigitValue
    THEN ReadDigits(Tail(s), 10 * acc + DigitValue[Head(s)], FALSE)
    ELSE [nan |-> none, n |-> acc]

\* parseInt(value): leading white space is skipped, then an optional sign,
\* then digits up to the first other character; NaN when there is no digit.
ParseInt(value) ==
    LET t == TrimStart(value)
    IN  IF t # <<>> /\ Head(t) = "-"
        THEN LET r == ReadDigits(Tail(t), 0, TRUE) IN [nan |-> r.nan, n |-> 0 - r.n]
        ELSE IF t # <<>> /\ Head(t) = "+" THEN ReadDigits(Tail(t), 0, TRUE)
        ELSE ReadDigits(t, 0, TRUE)

\* Plugin.saveSettings(): the path of the selected canvas goes into the
\* settings, which are written to data.json.
saveSettings(st, application) ==
    IF application.selectedCanvas # NoCanvas
    THEN [st EXCEPT !.lastCanvasPath = application.selectedCanvas]
    ELSE st

\* The six node-size fields of the settings tab.
SizeFields ==
    {"linkNodeWidth", "linkNodeHeight", "contentNodeWidth", "contentNodeHeight",
     "fileNodeWidth", "fileNodeHeight"}

\* What the user types into a node-size field.
SizeInputs ==
    {<<>>, <<"x">>, <<"0">>, <<"-", "5">>, <<"2", "5">>, <<"2", "5", "p", "x">>}

\* A handler that takes every number (the code takes the numbers above 0).
EditSizeUnchecked(field, value) ==
    /\ settings' = IF ~ParseInt(value).nan
                   THEN saveSettings([settings EXCEPT ![field] = ParseInt(value).n], app)
                   ELSE settings
    /\ UNCHANGED <<note, canvas, op, anchorLog, writer, located, app>>

\* The onChange handler of a node-size field: the setting changes, and is
\* saved, when the parsed value is a number above 0.
EditSize(field, value) ==
    /\ settings' = IF ~ParseInt(value).nan /\ ParseInt(value).n > 0
                   THEN saveSettings([settings EXCEPT ![field] = ParseInt(value).n], app)
                   ELSE settings
    /\ UNCHANGED <<note, canvas, op, anchorLog, writer, located, app>>

\* The onChange handler of "Append timestamp to links".
ToggleTimestamp(value) ==
    /\ settings' = saveSettings([settings EXCEPT !.appendTimestampToLinks = value], app)
    /\ UNCHANGED <<note, canvas, op, anchorLog, writer, located, app>>

\* The default settings, any note and a canvas file just created.
InitSettings ==
    /\ note \in Notes
    /\ canvas = FileText(<<>>)
    /\ settings = saveSettings(DEFAULT_SETTINGS, ReadyApp)
    /\ InitOps

\* The settings tab and the commands.  "Append text to open tasks" stays
\* off, as in the default settings, so that no command reaches the
\* open-task step.
NextSettings ==
    \/ \E field \in SizeFields, value \in SizeInputs : EditSize(field, value)
    \/ \E value \in BOOLEAN : ToggleTimestamp(value)
    \/ \E p \in 1..MaxSettingsSends :
        \/ Start(p)
        \/ CanvasRead(p)
        \/ CanvasInit(p)
        \/ CanvasSave(p)

SpecSettings == InitSettings /\ [][NextSettings]_vars

\* ----------------------------------------------------------------- session

\* The notes the vault can hold beside its canvas files, by basename: the
\* note canvas.md in the root folder.  The vault has no folders.
NoteNames == {<<"c", "a", "n", "v", "a", "s">>}

\* The files of the vault, each known by its basename.
VaultNames == CanvasNames \cup NoteNames

\* file.extension
Extension(base) ==
    IF base \in CanvasNames THEN <<"c", "a", "n", "v", "a", "s">> ELSE <<"m", "d">>

\* file.name (and file.path, in the root folder).
FileName(base) == base \o <<".">> \o Extension(base)

\* Plugin.getCanvasFiles(): the files with the extension canvas; when there
\* are none, the files with "canvas" in their name.
getCanvasFiles(files) ==
    LET canvasFiles == {f \in files : Extension(f) = <<"c", "a", "n", "v", "a", "s">>}
        nameBasedCanvasFiles ==
            {f \in files : Includes(FileName(f), <<"c", "a", "n", "v", "a", "s">>)}
    IN  IF canvasFiles # {} THEN canvasFiles ELSE nameBasedCanvasFiles

\* fileName.replace(/\.canvas$/, "") for the name of a file.
BaseNameWithoutExt(base) ==
    IF Extension(base) = <<"c", "a", "n", "v", "a", "s">> THEN base ELSE FileName(base)

\* Plugin.findCanvasFile(nameOrPath) for the path of a file that was
\* selected once: the files of the first search that finds any (by path
\* for a file with the extension canvas; then among getCanvasFiles() by
\* name, by basename, by a name that includes the basename); find()
\* returns the first of them in the order of the vault.  The empty set
\* stands for null.
findCanvasFile(files, nameOrPath) ==
    LET allCanvasFiles == getCanvasFiles(files)
        byBasename == {f \in allCanvasFiles : f = BaseNameWithoutExt(nameOrPath)}
    IN  IF nameOrPath \in files /\ Extension(nameOrPath) = <<"c", "a", "n", "v", "a", "s">>
        THEN {nameOrPath}
        ELSE IF nameOrPath \in allCanvasFiles THEN {nameOrPath}
        ELSE IF byBasename # {} THEN byBasename
        ELSE {f \in allCanvasFiles :
                 Includes(FileName(f), BaseNameWithoutExt(nameOrPath))}

\* The callback of the modal of selectCanvasFile, for the file chosen; the
\* notice "No canvas files found in vault" when there is nothing to choose.
SelectCanvas ==
    IF getCanvasFiles(app.files) = {}
    THEN /\ app' = [app EXCEPT !.notice = "noFiles"]
         /\ UNCHANGED <<note, canvas, settings, op, anchorLog, writer, located>>
    ELSE \E file \in getCanvasFiles(app.files) :
        /\ app' = [app EXCEPT !.selectedCanvas = file,
                              !.notice = IF settings.rememberLastCanvas
                                         THEN "remembered" ELSE "untilClose"]
        /\ settings' = saveSettings([settings EXCEPT !.lastCanvasPath = file], app')
        /\ UNCHANGED <<note, canvas, op, anchorLog, writer, located>>

\* The onChange handler of "Remember last canvas".
ToggleRemember(value) ==
    /\ settings' = saveSettings([settings EXCEPT !.rememberLastCanvas = value], app)
    /\ UNCHANGED <<note, canvas, op, anchorLog, writer, located, app>>

\* The application is closed and started again: onload and loadSettings,
\* which reads the settings back from data.json; nothing is selected.
Restart ==
    /\ app' = [app EXCEPT !.phase = "starting", !.selectedCanvas = NoCanvas,
                          !.notice = "none"]
    /\ UNCHANGED <<note, canvas, settings, op, anchorLog, writer, located>>

\* Plugin.loadCanvasFile(), run by the timer of onload.
loadCanvasFile ==
    /\ app.phase = "starting"
    /\ IF settings.lastCanvasPath = NoCanvas
       THEN /\ app' = [app EXCEPT !.phase = "ready"]
            /\ UNCHANGED settings
       ELSE IF findCanvasFile(app.files, settings.lastCanvasPath) = {}
       THEN /\ app' = [app EXCEPT !.phase = "ready"]
            /\ settings' = saveSettings([settings EXCEPT !.lastCanvasPath = NoCanvas], app)
       ELSE \E file \in findCanvasFile(app.files, settings.lastCanvasPath) :
            /\ app' = [app EXCEPT !.phase = "ready", !.selectedCanvas = file,
                                  !.notice = IF settings.rememberLastCanvas
                                             THEN "loaded" ELSE @]
            /\ settings' = [settings EXCEPT !.lastCanvasPath = file]
    /\ UNCHANGED <<note, canvas, op, anchorLog, writer, located>>

\* The user deletes or creates a file in the vault.
DeleteFile(file) ==
    /\ file \in app.files
    /\ app' = [app EXCEPT !.files = @ \ {file}]
    /\ UNCHANGED <<note, canvas, settings, op, anchorLog, writer, located>>

CreateFile(file) ==
    /\ file \notin app.files
    /\ app' = [app EXCEPT !.files = @ \cup {file}]
    /\ UNCHANGED <<note, canvas, settings, op, anchorLog, writer, located>>

\* The first start of the plugin, with the default settings, in a vault
\* with any files.
InitSession ==
    /\ note = TaskNote
    /\ canvas = EmptyCanvas
    /\ settings = DEFAULT_SETTINGS
    /\ op = [p \in Procs |-> IdleOp]
    /\ anchorLog = <<>>
    /\ writer = 0
    /\ located = NoCall
    /\ \E files \in SUBSET VaultNames :
           app = [phase |-> "starting", selectedCanvas |-> NoCanvas,
                  files |-> files, notice |-> "none"]

NextSession ==
    \/ SelectCanvas
    \/ \E value \in BOOLEAN : ToggleRemember(value)
    \/ Restart
    \/ loadCanvasFile
    \/ \E file \in VaultNames : DeleteFile(file)
    \/ \E file \in VaultNames : CreateFile(file)

SpecSession == InitSession /\ [][NextSession]_vars

\* ----------------------------------------------------------------- locator

\* The number of lines of a document given to findTextPosition.
MaxLines == 2

\* The lines such a document is made of.
LocateLines ==
    {<<"a", "b">>, <<" ", "a", "b">>, <<"a", " ", "b">>, <<"a", " ", " ", "b">>,
     <<"-", " ", "[", " ", "]", " ", "a">>, <<>>}

\* The documents of n lines.
RECURSIVE DocsOf(_)
DocsOf(n) ==
    IF n = 1 THEN LocateLines
    ELSE {d \o <<NL>> \o l : d \in DocsOf(n - 1), l \in LocateLines}

LocateDocs == UNION {DocsOf(n) : n \in 1..MaxLines}

\* The fragments looked for.
LocateTexts ==
    {<<"a", "b">>, <<"a", "b", " ">>, <<"b">>, <<"a", " ", "b", " ">>,
     <<"a", " ", " ", " ", "b">>, <<"c">>, <<>>, <<" ">>,
     <<"-", " ", "[", " ", "]", " ", " ", "a">>,
     <<"-", " ", "[", " ", "]", "b">>,
     <<"a", "b", NL, "c">>, <<" ", "a", " ", "b", NL, "c">>}

\* A document to search in.
InitLocate ==
    /\ note \in LocateDocs
    /\ canvas = EmptyCanvas
    /\ settings = LoadedSettings(FALSE, FALSE)
    /\ InitOps

\* A call BlockReferenceUtils.findTextPosition(content, text) on the note.
Locate(text) ==
    /\ located' = [text |-> text, pos |-> findTextPosition(note, text),
                   called |-> TRUE]
    /\ UNCHANGED <<note, canvas, settings, op, anchorLog, writer, app>>

NextLocate == \E text \in LocateTexts : Locate(text)

SpecLocate == InitLocate /\ [][NextLocate]_vars

\* ------------------------------------------------------------ anchor step

\* The number of calls of addBlockIdToSelection in a behaviour.
MaxRequests == 2

\* The notes the anchor step works on: a line that ends with caret text, a
\* note with an empty last line, an open task.
AnchorNotes ==
    {<<"c", "^", "2", NL, "a", "b">>,
     <<"a", "b", NL, "c", "d", NL>>,
     TaskNote}

\* What the user types into "Block ID format": the default, and a format
\* with a colon between its tokens (as "HH:mm").
BlockIdFormats == {DEFAULT_SETTINGS.blockIdDateFormat, <<"H", ":", "m">>}

\* The settings of the anchor step: random IDs, or date-based IDs in one of
\* the formats; the open-task text on or off.
AnchorSettings ==
    {[LoadedSettings(FALSE, task) EXCEPT !.useCustomBlockIdFormat = custom,
                                         !.blockIdDateFormat = format] :
        task \in BOOLEAN, custom \in BOOLEAN, format \in BlockIdFormats}

InitAnchor ==
    /\ note \in AnchorNotes
    /\ canvas = EmptyCanvas
    /\ settings \in {st \in AnchorSettings :
                        st.useCustomBlockIdFormat
                        \/ st.blockIdDateFormat = DEFAULT_SETTINGS.blockIdDateFormat}
    /\ InitOps

\* A call addBlockIdToSelection(editor, file, textToSend) of a link or embed
\* command, for the selection sel of the editor.
Anchor(sel) ==
    /\ Len(anchorLog) < MaxRequests
    /\ ValidSelection(note, sel)
    /\ Trim(TextToSend(note, sel)) # <<>>
    /\ \E newId \in generateBlockId(settings) :
        LET text == TextToSend(note, sel)
            r == addBlockIdToSelection(settings, note, sel.toLine, text, newId, TRUE)
        IN  /\ note' = r.note
            /\ anchorLog' = Append(anchorLog,
                  [text |-> text, id |-> r.id,
                   located |-> findTextPosition(note, text) # NoPosition,
                   changed |-> r.note # note,
                   cur |-> sel.toLine,
                   pos |-> AnchorPosition(note, sel.toLine, text),
                   before |-> note, after |-> r.note])
    /\ UNCHANGED <<canvas, settings, op, writer, located, app>>

NextAnchor == \E sel \in Selections : Anchor(sel)

SpecAnchor == InitAnchor /\ [][NextAnchor]_vars

\* ------------------------------------------------------------- open tasks

\* Notes with open tasks: a task whose ID starts with the ID of a later
\* line, a task that has an ID and no open-task text, a task under a line
\* that is no task.
TaskNotes ==
    {<<"-", " ", "[", " ", "]", " ", "c", " ", "^", "p", "q", NL,
       "a", " ", "^", "p", NL, "b">>,
     <<"-", " ", "[", " ", "]", " ", "a", " ", "^", "p">>,
     <<"c", NL, "-", " ", "[", " ", "]", " ", "a">>}

\* "Append text to open tasks" is on; the canvas file was just created.
InitTask ==
    /\ note \in TaskNotes
    /\ canvas = FileText(<<>>)
    /\ settings = LoadedSettings(FALSE, TRUE)
    /\ InitOps

SpecTask == InitTask /\ [][Next]_vars

\* ------------------------------------------------------------ one command

\* The number of nodes of the canvas file a command finds.
MaxNodes == 2

\* The nodes such a file is made of: nodes with a position member (two of
\* them equally far right), a node with x and y members, a node with
\* neither.
PlaceNodes ==
    {Node("e1", "text", "nested", 100, 50, 400, 200, <<"x">>),
     Node("e2", "text", "nested", 300, 10, 400, 200, <<"x">>),
     Node("e3", "text", "nested", 300, 70, 400, 200, <<"x">>),
     Node("e4", "text", "flat", 900, 90, 400, 200, <<"x">>),
     Node("e5", "text", "none", 0, 0, 400, 200, <<"x">>)}

\* The lists of n nodes.
RECURSIVE NodeLists(_)
NodeLists(n) ==
    IF n = 0 THEN {<<>>}
    ELSE {Append(l, node) : l \in NodeLists(n - 1), node \in PlaceNodes}

\* The canvas files: just created, or with a list of nodes.
PlaceCanvases ==
    {FileText(<<>>)}
        \cup {FileJson(JsonObj(Arr(l), Arr(<<>>))) :
                 l \in UNION {NodeLists(n) : n \in 0..MaxNodes}}

\* The session of a command before the user has selected a canvas file.
UnselectedApp == [ReadyApp EXCEPT !.selectedCanvas = NoCanvas]

\* One command over any of the canvas files, with or without a selected
\* canvas.
InitCommand ==
    /\ note = TaskNote
    /\ canvas \in PlaceCanvases
    /\ op = [p \in Procs |-> IdleOp]
    /\ anchorLog = <<>>
    /\ writer = 0
    /\ located = NoCall
    /\ app \in {ReadyApp, UnselectedApp}
    /\ settings = [LoadedSettings(FALSE, TRUE) EXCEPT
                       !.lastCanvasPath = app.selectedCanvas]

NextCommand ==
    \E p \in 1..MaxSettingsSends :
        \/ Start(p)
        \/ CanvasRead(p)
        \/ CanvasInit(p)
        \/ OpenTask(p)
        \/ CanvasSave(p)

SpecCommand == InitCommand /\ [][NextCommand]_vars

\* ------------------------------------------------------------------ claims

Done(p) == op[p].pc = "done"

\* The command has saved, and the canvas file still holds what it wrote.
Wrote(p) == op[p].saved = "ok" /\ writer = p

\* The nodes of a canvas file that holds an object with an array of nodes.
HasNodes(content) ==
    content.k = "json" /\ content.v.t = "obj" /\ content.v.nodes.f = "arr"

\* C1: two successive anchor requests for the same fragment, the first of
\* which the locator found in the note, return the same block ID, and the
\* second leaves the note as it is.
C1_IdempotentAnchoring ==
    \A i \in 1..(Len(anchorLog) - 1) :
        (anchorLog[i].located /\ anchorLog[i + 1].text = anchorLog[i].text)
            => /\ anchorLog[i + 1].id = anchorLog[i].id
               /\ ~anchorLog[i + 1].changed

\* The number of anchor tokens " ^<id>" of a line.
AnchorTokens(line) ==
    Cardinality({i \in 1..(Len(line) - 2) :
                    /\ line[i] = " "
                    /\ line[i + 1] = "^"
                    /\ line[i + 2] \in IdChars})

\* C2: every line of the note carries at most one anchor token.
C2_OneAnchorPerLine ==
    \A i \in 1..Len(Split(note)) : AnchorTokens(Split(note)[i]) <= 1

\* C3: over a canvas that started empty, the nodes in the file have
\* strictly increasing x in insertion order, the first at x = 0.
C3_PlacementMonotonic ==
    HasNodes(canvas) =>
        LET nodes == canvas.v.nodes.items
        IN  /\ nodes # <<>> => nodes[1].x = 0
            /\ \A i \in 1..(Len(nodes) - 1) : nodes[i].x < nodes[i + 1].x

\* The canvas file holds the node of p and the node of q at two places.
HoldsBoth(p, q) ==
    /\ HasNodes(canvas)
    /\ \E i, j \in 1..Len(canvas.v.nodes.items) :
           /\ i # j
           /\ canvas.v.nodes.items[i] = op[p].node
           /\ canvas.v.nodes.items[j] = op[q].node

\* Both commands have saved into a document that is a JSON object.
BothSaved(p, q) ==
    /\ p # q
    /\ Done(p) /\ op[p].saved = "ok" /\ op[p].data.base = "obj"
    /\ Done(q) /\ op[q].saved = "ok" /\ op[q].data.base = "obj"

ReadAfter(q, p) ==
    /\ HasNodes(op[q].rd)
    /\ \E i \in 1..Len(op[q].rd.v.nodes.items) :
           op[q].rd.v.nodes.items[i] = op[p].node

Basis(rd) ==
    IF TooShort(rd) \/ rd.k = "text" \/ rd.v.t \in {"null", "num"}
    THEN [base |-> "obj", nodes |-> <<>>, edges |-> Arr(<<>>)]
    ELSE [base |-> rd.v.t,
          nodes |-> IF rd.v.t = "obj" /\ rd.v.nodes.f = "arr"
                    THEN rd.v.nodes.items ELSE <<>>,
          edges |-> IF rd.v.t = "obj" /\ rd.v.edges.f \in {"arr", "scalar"}
                    THEN rd.v.edges ELSE Arr(<<>>)]

\* C5: a save writes the content the command read plus its one node, also
\* over a file that another write has changed since the read, and the
\* command reports success and no failure.
C5_LastWriterWins ==
    \A p \in Procs :
        (Wrote(p) /\ op[p].stale) =>
            /\ canvas = IF Basis(op[p].rd).base = "arr" THEN FileJson(JsonArr)
                        ELSE FileJson(JsonObj(
                                 Arr(Basis(op[p].rd).nodes \o <<op[p].node>>),
                                 Basis(op[p].rd).edges))
            /\ op[p].notices \subseteq {"sent", "parseError"}
            /\ "sent" \in op[p].notices

\* A save has overwritten another command's save: the other node is gone.
C5_Witness ==
    \E p, q \in Procs :
        /\ BothSaved(p, q) /\ Wrote(p) /\ op[p].stale
        /\ \A i \in 1..Len(canvas.v.nodes.items) :
               canvas.v.nodes.items[i] # op[q].node

\* The content is empty, blank, shorter than two characters or not JSON.
Malformed(content) ==
    content.k = "text" \/ (content.k = "json" /\ TooShort(content))

\* C6: a command that read a malformed canvas file and met no read or write
\* failure ends with a save, and its save leaves a file with the new node
\* alone and no edges.
C6_ParseResilience ==
    \A p \in Procs :
        Malformed(op[p].rd) =>
            /\ (Done(p) /\ op[p].notices \cap {"readFailed", "saveFailed"} = {})
                   => op[p].saved = "ok"
            /\ Wrote(p) =>
                   canvas = FileJson(JsonObj(Arr(<<op[p].node>>), Arr(<<>>)))

\* A command has saved over a file that was not JSON.
C6_Witness ==
    \E p \in Procs :
        Wrote(p) /\ op[p].rd = FileText(<<"{", "x">>) /\ "parseError" \in op[p].notices

\* C7: once a command has parsed a canvas file that holds a JSON object
\* (one kind of valid JSON), the nodes and the edges of its
\* document are both arrays.
C7_NodesAndEdgesAreSequences ==
    \A p \in Procs :
        (op[p].rd.k = "json" /\ op[p].rd.v.t = "obj" /\ op[p].data # NoData)
            => op[p].data.nodes.f = "arr" /\ op[p].data.edges.f = "arr"

\* The canvas file holds an object whose nodes and edges are arrays.
WellFormed(content) ==
    HasNodes(content) /\ content.v.edges.f = "arr"

\* C8: a save over a well-formed document writes the nodes it read, in
\* their order and unchanged, then the one new node, and the edges it read.
C8_AppendKeepsDocument ==
    \A p \in Procs :
        (Wrote(p) /\ WellFormed(op[p].rd)) =>
            /\ WellFormed(canvas)
            /\ canvas.v.nodes.items = op[p].rd.v.nodes.items \o <<op[p].node>>
            /\ canvas.v.edges = op[p].rd.v.edges

\* A command has saved over a document with a node and an edge.
C8_Witness ==
    \E p \in Procs :
        /\ Wrote(p)
        /\ WellFormed(op[p].rd)
        /\ op[p].rd.v.nodes.items # <<>>
        /\ op[p].rd.v.edges.items # <<>>

\* C9: a link or embed send whose anchor step returned the empty string
\* does not save a canvas with a new node.
C9_EmptyAnchorAborts ==
    \A p \in Procs :
        (op[p].cmd \in {"link", "embed"} /\ op[p].blockId = <<>>)
            => op[p].saved # "ok"

\* C10: a command that met a failure of the canvas read or write shows no
\* success notice.
C10_FailureShowsNoSuccess ==
    \A p \in Procs :
        (Done(p) /\ op[p].notices \cap {"readFailed", "saveFailed"} # {})
            => "sent" \notin op[p].notices

\* C11: when the canvas write of a link or embed send has failed, and no
\* other command has run, the source note is as it was before the send.
C11_NoPartialWrite ==
    \A p \in Procs :
        (/\ op[p].cmd \in {"link", "embed"}
         /\ op[p].saved = "failed"
         /\ \A q \in Procs \ {p} : op[q].pc = "idle")
            => note = op[p].before

\* The ids of the nodes of a canvas file, in order.
Ids(content) == [i \in 1..Len(content.v.nodes.items) |-> content.v.nodes.items[i].id]

\* C12: the ids of the nodes in the canvas file are pairwise distinct.
C12_NodeIdsDistinct ==
    HasNodes(canvas) =>
        \A i, j \in 1..Len(Ids(canvas)) : i # j => Ids(canvas)[i] # Ids(canvas)[j]

\* C13: the six node sizes of the settings are above 0, and so are the
\* width and the height of every node a command has built and of every
\* node in the canvas file.
C13_NodeSizesPositive ==
    /\ \A field \in SizeFields : settings[field] > 0
    /\ \A p \in Procs :
           op[p].node # NoNode => op[p].node.width > 0 /\ op[p].node.height > 0
    /\ HasNodes(canvas) =>
           \A i \in 1..Len(canvas.v.nodes.items) :
               /\ canvas.v.nodes.items[i].width > 0
               /\ canvas.v.nodes.items[i].height > 0

\* A node with a width typed into the settings tab is in the canvas file.
C13_Witness ==
    \E p \in Procs :
        Wrote(p) /\ op[p].node.width = 25 /\ op[p].node.height = 25

\* The text a selection command is to send: the selection, or the line of
\* the cursor when the selection is empty or blank.
SelectedText(before, sel) ==
    IF Trim(GetSelection(before, sel)) = <<>>
    THEN Split(before)[sel.toLine + 1]
    ELSE GetSelection(before, sel)

\* body is base, or base and one space and the timestamp.
WithOptionalStamp(body, base) ==
    body = base \/ body = base \o <<" ">> \o Timestamp

\* C14: the text of a link node is "[[<basename>#^<blockId>]]", of an embed
\* node "![[<basename>#^<blockId>]]", each with at most the timestamp
\* after it, and of a plain node the selected text (or the line of the
\* cursor) as it was in the note.
C14_NodeTextByFormat ==
    \A p \in Procs :
        op[p].node # NoNode =>
            /\ op[p].cmd = "link" =>
                   WithOptionalStamp(op[p].node.body,
                       <<"[", "[">> \o Basename \o <<"#", "^">> \o op[p].blockId
                           \o <<"]", "]">>)
            /\ op[p].cmd = "embed" =>
                   WithOptionalStamp(op[p].node.body,
                       <<"!", "[", "[">> \o Basename \o <<"#", "^">> \o op[p].blockId
                           \o <<"]", "]">>)
            /\ op[p].cmd = "plain" =>
                   op[p].node.body = SelectedText(op[p].before, op[p].sel)

\* A link node with a block ID has been saved.
C14_Witness ==
    \E p \in Procs :
        Wrote(p) /\ op[p].cmd = "link" /\ op[p].blockId # <<>>

\* The text ends with one space and the timestamp.
EndsWithStamp(body) ==
    /\ Len(body) > Len(Timestamp)
    /\ SubSeq(body, Len(body) - Len(Timestamp), Len(body)) = <<" ">> \o Timestamp

\* C15: the step that builds a node gives its text the timestamp suffix
\* exactly when appendTimestampToLinks is on and the command is a block
\* link, a block embed or a note link.  (No note holds the letter of the
\* timestamp, so a plain text cannot end with it by itself.)
C15_TimestampIff ==
    [][\A p \in Procs :
          (op[p].node = NoNode /\ op'[p].node # NoNode) =>
              (EndsWithStamp(op'[p].node.body)
                  <=> /\ settings.appendTimestampToLinks
                      /\ op[p].cmd \in {"link", "embed", "noteLink"})]_vars

\* A note link with the timestamp has been saved.
C15_Witness ==
    \E p \in Procs :
        Wrote(p) /\ op[p].cmd = "noteLink" /\ EndsWithStamp(op[p].node.body)

\* C16: the step that builds a node gives it the link sizes for a block
\* link or a note link, the content sizes for a block embed or a plain
\* text, and the file sizes for a note embed.
C16_DimensionsByKind ==
    [][\A p \in Procs :
          (op[p].node = NoNode /\ op'[p].node # NoNode) =>
              LET kind == IF op[p].cmd \in {"link", "noteLink"} THEN "link"
                          ELSE IF op[p].cmd \in {"embed", "plain"} THEN "content"
                          ELSE "file"
                  node == op'[p].node
              IN  /\ kind = "link" =>
                         /\ node.width = settings.linkNodeWidth
                         /\ node.height = settings.linkNodeHeight
                  /\ kind = "content" =>
                         /\ node.width = settings.contentNodeWidth
                         /\ node.height = settings.contentNodeHeight
                  /\ kind = "file" =>
                         /\ node.width = settings.fileNodeWidth
                         /\ node.height = settings.fileNodeHeight]_vars

\* A note link of the edited link width has been saved while the content
\* width is the default.
C16_Witness ==
    \E p \in Procs :
        /\ Wrote(p) /\ op[p].cmd = "noteLink"
        /\ op[p].node.width = 25 /\ settings.contentNodeWidth = 400
        /\ op[p].node.height = 100 /\ settings.contentNodeHeight = 200

\* The selection of the command is empty or blank.
BlankSelection(p) ==
    /\ op[p].cmd \in SelectionFormats
    /\ \A i \in 1..Len(GetSelection(op[p].before, op[p].sel)) :
           GetSelection(op[p].before, op[p].sel)[i] \in WhiteSpace

\* The line of the cursor when the command started.
CursorLine(p) == Split(op[p].before)[op[p].sel.toLine + 1]

C18_RememberLastCanvas ==
    [][(app.phase = "starting" /\ app'.phase = "ready") =>
          IF settings.rememberLastCanvas
          THEN settings.lastCanvasPath \in app.files
                   => app'.selectedCanvas = settings.lastCanvasPath
          ELSE app'.selectedCanvas = app.selectedCanvas]_vars

\* text stands in line at offset k (from 0).
Occurs(line, text, k) ==
    /\ k + Len(text) <= Len(line)
    /\ SubSeq(line, k + 1, k + Len(text)) = text

\* The lines (from 1) of the note that hold text verbatim.
Holding(text) ==
    {i \in 1..Len(Split(note)) :
        \E k \in 0..Len(Split(note)[i]) : Occurs(Split(note)[i], text, k)}

\* C19: when some line of the document holds the fragment verbatim,
\* findTextPosition returns the first such line and the offset of the
\* first occurrence of the fragment in it.
C19_ExactPass ==
    (located.called /\ Holding(located.text) # {}) =>
        /\ located.pos.line + 1 \in Holding(located.text)
        /\ \A i \in Holding(located.text) : located.pos.line + 1 <= i
        /\ Occurs(Split(note)[located.pos.line + 1], located.text, located.pos.offset)
        /\ \A k \in 0..(located.pos.offset - 1) :
               ~Occurs(Split(note)[located.pos.line + 1], located.text, k)

\* The fragment stands in two lines, in the first of them after a space.
C19_Witness ==
    /\ located.called
    /\ Cardinality(Holding(located.text)) = 2
    /\ located.text # <<>>
    /\ located.pos = [line |-> 0, offset |-> 1]

\* The lines (from 1) of the note that each pass of the locator accepts for
\* text, pass by pass.
PassMatches(text) ==
    LET lines == Split(note)
        searchText == Trim(text)
        rest == Trim(SubSeq(searchText, Len(TaskPrefix) + 1, Len(searchText)))
    IN  << Holding(text),
           Holding(searchText),
           IF Occurs(searchText, TaskPrefix, 0)
           THEN {i \in 1..Len(lines) :
                    /\ Occurs(Trim(lines[i]), TaskPrefix, 0)
                    /\ \E k \in 0..Len(Trim(lines[i])) : Occurs(Trim(lines[i]), rest, k)}
           ELSE {},
           IF \E k \in 1..Len(text) : text[k] = NL
           THEN {i \in 1..Len(lines) : Trim(lines[i]) = Trim(Split(text)[1])}
           ELSE {},
           {i \in 1..Len(lines) :
               Trim(CollapseWs(lines[i])) = Trim(CollapseWs(searchText))} >>

\* C20: findTextPosition returns null exactly when no pass accepts any
\* line; otherwise it returns the first line accepted by the first pass
\* that accepts any line.
C20_CascadeOrder ==
    located.called =>
        LET m == PassMatches(located.text)
            passes == {n \in 1..Len(m) : m[n] # {}}
        IN  IF passes = {} THEN located.pos = NoPosition
            ELSE LET first == CHOOSE n \in passes : \A k \in passes : n <= k
                 IN  /\ located.pos # NoPosition
                     /\ located.pos.line + 1 \in m[first]
                     /\ \A i \in m[first] : located.pos.line + 1 <= i

\* The result comes from the trimmed pass, in the second line, while the
\* whitespace-normalized pass accepts the first line.
C20_Witness ==
    /\ located.called
    /\ PassMatches(located.text)[1] = {}
    /\ PassMatches(located.text)[2] = {2}
    /\ 1 \in PassMatches(located.text)[5]
    /\ located.pos.line = 1

\* s ends with t.
EndsWith(s, t) ==
    Len(t) <= Len(s) /\ SubSeq(s, Len(s) - Len(t) + 1, Len(s)) = t

\* " ^<id>", the anchor token as the anchor step writes it.
Token(id) == <<" ", "^">> \o id

\* C21: the anchor step returns an existing ID for the line it located
\* (and writes nothing) only when the line ends with the token "^<id>",
\* id of one or more of [A-Za-z0-9-], with a single space between the
\* token and what precedes it.
C21_ExistingIdNeedsSpace ==
    \A i \in 1..Len(anchorLog) :
        LET e == anchorLog[i]
        IN  (e.pos # NoPosition /\ e.id # <<>> /\ ~e.changed) =>
                /\ \A k \in 1..Len(e.id) : e.id[k] \in IdChars
                /\ EndsWith(Split(e.before)[e.pos.line + 1], Token(e.id))

\* C25: when nothing finds the fragment, a cursor line that is not blank
\* gets a newly generated ID appended (after the open-task text, where that
\* applies), every other line stays, and the ID is returned; over a blank
\* cursor line "" is returned and the note stays as it is.
C25_NotFoundFallback ==
    \A i \in 1..Len(anchorLog) :
        LET e == anchorLog[i]
            lines == Split(e.before)
            after == Split(e.after)
        IN  (e.pos = NoPosition) =>
                IF Trim(lines[e.cur + 1]) # <<>>
                THEN /\ e.id \in generateBlockId(settings)
                     /\ Len(after) = Len(lines)
                     /\ StartsWith(after[e.cur + 1], TrimEnd(lines[e.cur + 1]))
                     /\ EndsWith(after[e.cur + 1], Token(e.id))
                     /\ \A k \in 1..Len(lines) :
                            k # e.cur + 1 => after[k] = lines[k]
                ELSE e.id = <<>> /\ e.after = e.before

\* Both cases in one behaviour: a fragment that is not found over a cursor
\* line with text, then one over a blank cursor line.
C25_Witness ==
    /\ Len(anchorLog) = 2
    /\ anchorLog[1].pos = NoPosition /\ anchorLog[1].changed
    /\ anchorLog[2].pos = NoPosition /\ anchorLog[2].id = <<>>
    /\ Trim(Split(anchorLog[2].before)[anchorLog[2].cur + 1]) = <<>>

\* The line an anchor step wrote to, or looked at.
Target(e) == IF e.pos = NoPosition THEN e.cur ELSE e.pos.line

\* C30: when an anchor step has appended " ^<id>" to a line, the next
\* anchor step that locates that line returns the same ID and writes
\* nothing, in random mode and in date mode with any format.
C30_WriteDetectAgreement ==
    \A i \in 1..(Len(anchorLog) - 1) :
        LET e == anchorLog[i]
            f == anchorLog[i + 1]
        IN  (e.changed /\ f.pos # NoPosition /\ f.pos.line = Target(e)) =>
                f.id = e.id /\ ~f.changed

\* The line (from 0) the anchor step of command p worked on: the line it
\* located, else the cursor line.
AnchoredLine(p) ==
    LET pos == AnchorPosition(op[p].before, op[p].sel.toLine, op[p].text)
    IN  IF pos = NoPosition THEN op[p].sel.toLine ELSE pos.line

\* Command p has sent a selection as a link or an embed, and has saved the
\* canvas file with its node.
SentReference(p) == op[p].saved = "ok" /\ op[p].cmd \in {"link", "embed"}

\* C22: a link or embed send changes at most one line of the note: after
\* the send (and no other) the note has as many lines as before, and every
\* line but the anchored one is as it was.
C22_OneLineChanges ==
    \A p \in Procs :
        (SentReference(p) /\ \A q \in Procs \ {p} : op[q].pc = "idle") =>
            LET before == Split(op[p].before)
                after == Split(note)
            IN  /\ Len(after) = Len(before)
                /\ \A k \in 1..Len(before) :
                       k # AnchoredLine(p) + 1 => after[k] = before[k]

\* The offsets (from 1) at which t occurs in s.
Occurrences(s, t) == {i \in 1..Len(s) : MatchAt(s, t, i - 1)}

\* Trim(line) starts with "- [ ]".
IsOpenTask(line) == StartsWith(Trim(line), TaskPrefix)

\* Every command that has run was a link or embed send of line k (from 0),
\* an open task, and all of them have ended.
OnlySendsOf(k) ==
    /\ \E p \in Procs : SentReference(p)
    /\ \A p \in Procs :
           \/ op[p].pc = "idle"
           \/ /\ SentReference(p)
              /\ AnchoredLine(p) = k
              /\ IsOpenTask(Split(op[p].before)[k + 1])

\* The first half of C23, as a state predicate.
C23_TextOnceBeforeId ==
    \A k \in 0..(Len(Split(note)) - 1) :
        OnlySendsOf(k) =>
            LET line == Split(note)[k + 1]
                id == op[1].blockId
            IN  /\ Cardinality(Occurrences(line, settings.openTaskAppendText)) = 1
                /\ EndsWith(line, settings.openTaskAppendText \o Token(id))

\* The second half of C23, as a step.
C23_OtherLinesKeepClear ==
    \A k \in 1..Len(Split(note)) :
        (/\ Len(Split(note')) = Len(Split(note))
         /\ ~IsOpenTask(Split(note)[k])
         /\ ~Includes(Split(note)[k], settings.openTaskAppendText))
            => ~Includes(Split(note')[k], settings.openTaskAppendText)

\* C23: with the open-task text switched on, after any number of link or
\* embed sends of one open-task line that line holds the text exactly
\* once, right before its block ID; and no step puts the text into a line
\* that, trimmed, does not start with "- [ ]".
C23_OpenTaskAppendIdempotent ==
    /\ []C23_TextOnceBeforeId
    /\ [][C23_OtherLinesKeepClear]_vars

\* The nodes of the canvas file a command has read, <<>> for a file just
\* created.
NodesRead(p) == IF op[p].rd.k = "json" THEN op[p].rd.v.nodes.items ELSE <<>>

\* The indexes of the nodes that have a position member with numbers.
Positioned(nodes) == {i \in 1..Len(nodes) : nodes[i].enc = "nested"}

\* C24: the position of a new node is (0, 0) when the list is empty or has
\* no node with a well-formed position; otherwise it is (x_max + 500, y_m),
\* x_max the largest x among the nodes with a position and y_m the y of the
\* first of them in the list whose x is x_max.
C24_NewNodePosition ==
    \A p \in Procs :
        op[p].node # NoNode =>
            LET nodes == NodesRead(p)
                valid == Positioned(nodes)
            IN  IF valid = {}
                THEN op[p].node.x = 0 /\ op[p].node.y = 0
                ELSE \E m \in valid :
                        /\ \A i \in valid : nodes[i].x <= nodes[m].x
                        /\ \A i \in valid : nodes[i].x = nodes[m].x => m <= i
                        /\ op[p].node.x = nodes[m].x + 500
                        /\ op[p].node.y = nodes[m].y

\* A node placed after a list of two nodes that are equally far right at
\* different heights: it takes the height of the first.
C24_Witness ==
    \E p \in Procs :
        /\ op[p].node # NoNode
        /\ Len(NodesRead(p)) = 2
        /\ Positioned(NodesRead(p)) = {1, 2}
        /\ NodesRead(p)[1].x = NodesRead(p)[2].x
        /\ NodesRead(p)[1].y # NodesRead(p)[2].y
        /\ op[p].node.y = NodesRead(p)[1].y

\* C26: after a link or embed send that appended a node, the block ID of
\* the node's reference is not empty and a line of the note ends with
\* " ^<that id>".
C26_ReferencesResolve ==
    \A p \in Procs :
        SentReference(p) =>
            /\ op[p].blockId # <<>>
            /\ \E k \in 1..Len(Split(note)) :
                   EndsWith(Split(note)[k], Token(op[p].blockId))

\* C27: the selected canvas, when there is one, is a file with the
\* extension canvas.
C27_SelectedIsCanvas ==
    app.selectedCanvas # NoCanvas =>
        Extension(app.selectedCanvas) = <<"c", "a", "n", "v", "a", "s">>

\* C28: while no canvas is selected, no step of a send command changes the
\* note or the canvas file, and no anchor step runs.
C28_NoCanvasNoWrite ==
    [][app.selectedCanvas = NoCanvas =>
           /\ note' = note
           /\ canvas' = canvas
           /\ anchorLog' = anchorLog]_vars

\* Without a selected canvas, a block embed has ended with the request to
\* select one.
C28_Witness ==
    \E p \in Procs :
        /\ app.selectedCanvas = NoCanvas
        /\ Done(p)
        /\ op[p].cmd = "embed"
        /\ op[p].notices = {"selectFirst"}
        /\ note = op[p].before

\* C29: no step of a plain-text send changes the source note.
C29_PlainLeavesNote ==
    [][\A p \in Procs :
           (op'[p] # op[p] /\ op'[p].cmd = "plain") => note' = note]_vars

\* A plain-text send of an open task has saved its node, with the open-task
\* text switched on.
C29_Witness ==
    \E p \in Procs :
        /\ Wrote(p)
        /\ op[p].cmd = "plain"
        /\ settings.appendTextToOpenTasks
        /\ IsOpenTask(op[p].text)
        /\ note = op[p].before

====
